---- MODULE Spec2Model ----
(***************************************************************************)
(* VerifyBot API (src/app.py): an in-memory map from session id to a       *)
(* message list, a chat handler that appends the user's message, calls the *)
(* language model and appends its reply, and a clear-history handler.      *)
(*                                                                         *)
(* Text is a sequence of tokens (whitespace tokens and word tokens), so    *)
(* that str.strip() is computed rather than assumed.  Python lists are     *)
(* objects with identity: `conversations` maps a session id to a list      *)
(* reference, `heap` maps a reference to the list's entries, and the       *)
(* handler's local `history` is a reference.                               *)
(*                                                                         *)
(* Both handlers are `async def` coroutines that contain no `await`; the   *)
(* application is served by one uvicorn event loop, so a handler that has  *)
(* started runs to its end before the loop starts another one.  `req` is   *)
(* the request the loop is running (or the one it finished last).          *)
(*                                                                         *)
(* Spec has clients that send one request at a time.  SpecLoop has clients *)
(* that send concurrently: a request that arrives is kept in `waiting`     *)
(* until the loop starts its handler, and `overlap` tells which send was   *)
(* at the gateway call when the running request arrived.  `ledger` lists,  *)
(* per session, the entries that send-message requests have contributed   *)
(* since the session's Log was created or reset.                           *)
(***************************************************************************)
EXTENDS Integers, Sequences, FiniteSets, TLC

VARIABLES conversations, heap, req, waiting, overlap, ledger

vars == <<conversations, heap, req, waiting, overlap, ledger>>

----------------------------------------------------------------------------
(* Bounds and input domains *)

MaxLogLen == 4

MaxLoopLen == 5

MaxWaiting == 2

Sessions == {"A", "B"}

LoopSessions == {"A"}

LoopMessages == { <<" ">>, <<" ", "hi">>, <<"Hello">> }

Whitespace == {" ", "\t"}

Messages == { <<>>, <<" ">>, <<" ", "\t">>, <<" ", "hi">>, <<"Hello">> }

Replies == { <<"Welcome">>, <<"Sure">> }

Causes == { <<"quota exceeded">> }

----------------------------------------------------------------------------
(* Data *)

SYSTEM_PROMPT == <<"You are VerifyBot, the official AI assistant of Verify">>

SystemMessage == [role |-> "system", content |-> SYSTEM_PROMPT]

NoRef == 0

Refs == 1 .. (Cardinality(Sessions) + 2)

Range(f) == { f[x] : x \in DOMAIN f }

(* str.strip(): drop leading and trailing whitespace *)
RECURSIVE LStrip(_)
LStrip(s) == IF s # <<>> /\ Head(s) \in Whitespace THEN LStrip(Tail(s)) ELSE s

RECURSIVE RStrip(_)
RStrip(s) == IF s # <<>> /\ s[Len(s)] \in Whitespace
             THEN RStrip(SubSeq(s, 1, Len(s) - 1)) ELSE s

Strip(s) == RStrip(LStrip(s))

HumanMessageStripped(content) == [role |-> "user", content |-> Strip(content)]

HumanMessage(content) == [role |-> "user", content |-> content]

AIMessage(content) == [role |-> "assistant", content |-> content]

IsBlankEmptyOnly(message) == message = <<>>

(* `not request.message.strip()` *)
IsBlank(message) == Strip(message) = <<>>

GatewayInputLastOnly(log) == <<log[Len(log)]>>

(* the argument of llm.invoke(history): the list itself *)
GatewayInput(log) == log

(* the logs as the store holds them: session id -> entries *)
StoreOf(conv, hp) == [s \in DOMAIN conv |-> hp[conv[s]]]

StoreView == StoreOf(conversations, heap)

(* a list nobody references any more is reclaimed *)
Collect(conv, hp, live) ==
    [r \in Refs |-> IF r \in Range(conv) \cup live THEN hp[r] ELSE <<>>]

(* a new list object: the least reference not in use *)
Alloc(conv, live) ==
    CHOOSE r \in Refs : /\ r \notin Range(conv) \cup live
                        /\ \A q \in Refs : q \notin Range(conv) \cup live => r <= q

GetOrCreateHistoryAlways(conv, hp, session_id) ==
    LET r == Alloc(conv, {})
    IN [conversations |-> [s \in DOMAIN conv \cup {session_id} |->
                             IF s = session_id THEN r ELSE conv[s]],
        heap          |-> [hp EXCEPT ![r] = <<SystemMessage>>],
        history       |-> r]

(* get_or_create_history: the dict and heap after the call, and the list returned *)
GetOrCreateHistory(conv, hp, session_id) ==
    IF session_id \notin DOMAIN conv
    THEN LET r == Alloc(conv, {})
         IN [conversations |-> [s \in DOMAIN conv \cup {session_id} |->
                                  IF s = session_id THEN r ELSE conv[s]],
             heap          |-> [hp EXCEPT ![r] = <<SystemMessage>>],
             history       |-> r]
    ELSE [conversations |-> conv, heap |-> hp, history |-> conv[session_id]]

(* exceptions and str(e) *)
HTTPException400 == [cls |-> "HTTPException", status_code |-> <<"400">>,
                     detail |-> <<"Message cannot be empty">>]

GatewayError(cause) == [cls |-> "Exception", status_code |-> <<>>, detail |-> cause]

Str(e) == IF e.cls = "HTTPException" THEN e.status_code \o <<": ">> \o e.detail
          ELSE e.detail

NoResponse == [status |-> 0, response |-> <<>>, detail |-> <<>>,
               message |-> <<>>, session_id |-> ""]

ChatResponse(bot_message, session_id) ==
    [status |-> 200, response |-> bot_message, detail |-> <<>>,
     message |-> <<>>, session_id |-> session_id]

(* `except Exception as e: raise HTTPException(500, ...)` of chat *)
ChatExcept(e) ==
    [status |-> 500, response |-> <<>>,
     detail |-> <<"Error processing message: ">> \o Str(e),
     message |-> <<>>, session_id |-> ""]

ClearResponse(session_id) ==
    [status |-> 200, response |-> <<>>, detail |-> <<>>,
     message |-> <<"Conversation history cleared">>, session_id |-> session_id]

----------------------------------------------------------------------------
(* State *)

IdleRequest ==
    [op |-> "none", session_id |-> "", message |-> <<>>, pc |-> "idle",
     history |-> NoRef, calls |-> 0, sent |-> <<>>, cause |-> <<>>,
     resp |-> NoResponse, pre |-> <<>>]

NoOverlap == [op |-> "none", session_id |-> "", message |-> <<>>]

Init ==
    /\ conversations = <<>>
    /\ heap = [r \in Refs |-> <<>>]
    /\ req = IdleRequest
    /\ waiting = {}
    /\ overlap = NoOverlap
    /\ ledger = [s \in Sessions |-> <<>>]

LoopFreeAlways == TRUE

(* the event loop is free: no handler is in the middle of its body *)
LoopFree == req.pc \in {"idle", "done"}

LenOf(session_id) ==
    IF session_id \in DOMAIN conversations
    THEN Len(heap[conversations[session_id]]) ELSE 1

----------------------------------------------------------------------------
(* POST /chat, up to the point where llm.invoke(history) is issued *)
ChatBegin(session_id, message) ==
    /\ LoopFree
    /\ IF IsBlank(message)
       THEN /\ req' = [IdleRequest EXCEPT
                         !.op = "chat", !.session_id = session_id,
                         !.message = message, !.pc = "done",
                         !.resp = ChatExcept(HTTPException400),
                         !.pre = StoreView]
            /\ UNCHANGED <<conversations, heap>>
       ELSE LET g  == GetOrCreateHistory(conversations, heap, session_id)
                hp == [g.heap EXCEPT ![g.history] =
                          Append(g.heap[g.history], HumanMessage(message))]
            IN /\ conversations' = g.conversations
               /\ heap' = hp
               /\ req' = [IdleRequest EXCEPT
                            !.op = "chat", !.session_id = session_id,
                            !.message = message, !.pc = "gateway",
                            !.history = g.history, !.calls = 1,
                            !.sent = GatewayInput(hp[g.history]),
                            !.pre = StoreView]

GatewayReturnTwice(bot_message) ==
    /\ req.pc = "gateway"
    /\ heap' = Collect(conversations,
                       [heap EXCEPT ![req.history] =
                           heap[req.history] \o <<AIMessage(bot_message),
                                                  AIMessage(bot_message)>>],
                       {})
    /\ req' = [req EXCEPT !.pc = "done", !.history = NoRef,
                          !.resp = ChatResponse(bot_message, req.session_id)]
    /\ UNCHANGED conversations

GatewayReturn(bot_message) ==
    /\ req.pc = "gateway"
    /\ heap' = Collect(conversations,
                       [heap EXCEPT ![req.history] =
                           Append(heap[req.history], AIMessage(bot_message))],
                       {})
    /\ req' = [req EXCEPT !.pc = "done", !.history = NoRef,
                          !.resp = ChatResponse(bot_message, req.session_id)]
    /\ UNCHANGED conversations

GatewayRaiseRetry(cause) ==
    /\ req.pc = "gateway"
    /\ heap' = Collect(conversations, heap, IF req.calls < 2 THEN {req.history} ELSE {})
    /\ req' = IF req.calls < 2
              THEN [req EXCEPT !.calls = @ + 1]
              ELSE [req EXCEPT !.pc = "done", !.history = NoRef, !.cause = cause,
                               !.resp = ChatExcept(GatewayError(cause))]
    /\ UNCHANGED conversations

GatewayRaiseRollback(cause) ==
    /\ req.pc = "gateway"
    /\ heap' = Collect(conversations,
                       [heap EXCEPT ![req.history] =
                           SubSeq(heap[req.history], 1, Len(heap[req.history]) - 1)],
                       {})
    /\ req' = [req EXCEPT !.pc = "done", !.history = NoRef, !.cause = cause,
                          !.resp = ChatExcept(GatewayError(cause))]
    /\ UNCHANGED conversations

(* llm.invoke raises: the except clause of chat answers *)
GatewayRaise(cause) ==
    /\ req.pc = "gateway"
    /\ heap' = Collect(conversations, heap, {})
    /\ req' = [req EXCEPT !.pc = "done", !.history = NoRef, !.cause = cause,
                          !.resp = ChatExcept(GatewayError(cause))]
    /\ UNCHANGED conversations

ClearHistoryEmptyList(session_id) ==
    /\ LoopFree
    /\ IF session_id \in DOMAIN conversations
       THEN LET r    == Alloc(conversations, {})
                conv == [conversations EXCEPT ![session_id] = r]
            IN /\ conversations' = conv
               /\ heap' = Collect(conv, [heap EXCEPT ![r] = <<>>], {})
       ELSE UNCHANGED <<conversations, heap>>
    /\ req' = [IdleRequest EXCEPT
                 !.op = "clear", !.session_id = session_id, !.pc = "done",
                 !.resp = ClearResponse(session_id),
                 !.pre = StoreView]

ClearHistoryKeepFirstTurn(session_id) ==
    /\ LoopFree
    /\ IF session_id \in DOMAIN conversations
       THEN LET r    == Alloc(conversations, {})
                conv == [conversations EXCEPT ![session_id] = r]
                old  == heap[conversations[session_id]]
            IN /\ conversations' = conv
               /\ heap' = Collect(conv, [heap EXCEPT ![r] =
                              IF Len(old) > 3 THEN SubSeq(old, 1, 3) ELSE <<SystemMessage>>], {})
       ELSE UNCHANGED <<conversations, heap>>
    /\ req' = [IdleRequest EXCEPT
                 !.op = "clear", !.session_id = session_id, !.pc = "done",
                 !.resp = ClearResponse(session_id),
                 !.pre = StoreView]

ClearHistoryCreates(session_id) ==
    /\ LoopFree
    /\ LET r    == Alloc(conversations, {})
           conv == [s \in DOMAIN conversations \cup {session_id} |->
                      IF s = session_id THEN r ELSE conversations[s]]
       IN /\ conversations' = conv
          /\ heap' = Collect(conv, [heap EXCEPT ![r] = <<SystemMessage>>], {})
    /\ req' = [IdleRequest EXCEPT
                 !.op = "clear", !.session_id = session_id, !.pc = "done",
                 !.resp = ClearResponse(session_id),
                 !.pre = StoreView]

ClearHistoryKeepTwo(session_id) ==
    /\ LoopFree
    /\ IF session_id \in DOMAIN conversations
       THEN LET r    == Alloc(conversations, {})
                conv == [conversations EXCEPT ![session_id] = r]
                old  == heap[conversations[session_id]]
            IN /\ conversations' = conv
               /\ heap' = Collect(conv, [heap EXCEPT ![r] =
                              IF Len(old) >= 2 THEN SubSeq(old, 1, 2) ELSE old], {})
       ELSE UNCHANGED <<conversations, heap>>
    /\ req' = [IdleRequest EXCEPT
                 !.op = "clear", !.session_id = session_id, !.pc = "done",
                 !.resp = ClearResponse(session_id),
                 !.pre = StoreView]

ClearHistoryDeletes(session_id) ==
    /\ LoopFree
    /\ IF session_id \in DOMAIN conversations
       THEN LET conv == [t \in DOMAIN conversations \ {session_id} |-> conversations[t]]
            IN /\ conversations' = conv
               /\ heap' = Collect(conv, heap, {})
       ELSE UNCHANGED <<conversations, heap>>
    /\ req' = [IdleRequest EXCEPT
                 !.op = "clear", !.session_id = session_id, !.pc = "done",
                 !.resp = ClearResponse(session_id),
                 !.pre = StoreView]

ClearHistoryAll(session_id) ==
    /\ LoopFree
    /\ IF session_id \in DOMAIN conversations
       THEN /\ conversations' = [s \in {session_id} |-> Alloc(<<>>, {})]
            /\ heap' = [r \in Refs |-> IF r = Alloc(<<>>, {})
                                        THEN <<SystemMessage>> ELSE <<>>]
       ELSE UNCHANGED <<conversations, heap>>
    /\ req' = [IdleRequest EXCEPT
                 !.op = "clear", !.session_id = session_id, !.pc = "done",
                 !.resp = ClearResponse(session_id),
                 !.pre = StoreView]

(* POST /clear-history *)
ClearHistory(session_id) ==
    /\ LoopFree
    /\ IF session_id \in DOMAIN conversations
       THEN LET r    == Alloc(conversations, {})
                conv == [conversations EXCEPT ![session_id] = r]
            IN /\ conversations' = conv
               /\ heap' = Collect(conv, [heap EXCEPT ![r] = <<SystemMessage>>], {})
       ELSE UNCHANGED <<conversations, heap>>
    /\ req' = [IdleRequest EXCEPT
                 !.op = "clear", !.session_id = session_id, !.pc = "done",
                 !.resp = ClearResponse(session_id),
                 !.pre = StoreView]

----------------------------------------------------------------------------
(* What an observer of the requests records *)

(* an empty or all-whitespace message, stated without strip() *)
Blank(m) == \A i \in 1 .. Len(m) : m[i] \in Whitespace

SystemEntry == [role |-> "system", content |-> SYSTEM_PROMPT]

UserEntry(text) == [role |-> "user", content |-> text]

AssistantEntry(text) == [role |-> "assistant", content |-> text]

(* the session's contributions after a send-message with this text began *)
LedgerChat(session_id, message) ==
    IF Blank(message) THEN ledger
    ELSE [ledger EXCEPT ![session_id] = Append(@, UserEntry(message))]

(* the send that is at the gateway call right now, if any *)
AtGateway ==
    IF req.pc = "gateway"
    THEN [op |-> "chat", session_id |-> req.session_id, message |-> req.message]
    ELSE NoOverlap

----------------------------------------------------------------------------
(* Requests of clients that wait for each answer before the next request *)

Chat(session_id, message) ==
    /\ IsBlank(message) \/ LenOf(session_id) + 2 <= MaxLogLen
    /\ ChatBegin(session_id, message)
    /\ ledger' = LedgerChat(session_id, message)
    /\ UNCHANGED <<waiting, overlap>>

LlmReturns(bot_message) ==
    /\ GatewayReturn(bot_message)
    /\ ledger' = [ledger EXCEPT ![req.session_id] =
                     Append(@, AssistantEntry(bot_message))]
    /\ UNCHANGED <<waiting, overlap>>

LlmRaises(cause) ==
    /\ GatewayRaise(cause)
    /\ UNCHANGED <<waiting, overlap, ledger>>

Clear(session_id) ==
    /\ ClearHistory(session_id)
    /\ ledger' = [ledger EXCEPT ![session_id] = <<>>]
    /\ UNCHANGED <<waiting, overlap>>

Next ==
    \/ \E s \in Sessions, m \in Messages : Chat(s, m)
    \/ \E r \in Replies : LlmReturns(r)
    \/ \E c \in Causes : LlmRaises(c)
    \/ \E s \in Sessions : Clear(s)

Spec == Init /\ [][Next]_vars

----------------------------------------------------------------------------
(* Requests of clients that do not wait: the server accepts a request at any
   time and the loop starts its handler when it is free *)

Arrive(op, session_id, message) ==
    /\ Cardinality(waiting) < MaxWaiting
    /\ waiting' = waiting \cup {[op |-> op, session_id |-> session_id,
                                  message |-> message, during |-> AtGateway]}
    /\ UNCHANGED <<conversations, heap, req, overlap, ledger>>

StartChat(w) ==
    /\ w \in waiting /\ w.op = "chat"
    /\ IsBlank(w.message) \/ LenOf(w.session_id) + 2 <= MaxLoopLen
    /\ ChatBegin(w.session_id, w.message)
    /\ waiting' = waiting \ {w}
    /\ overlap' = w.during
    /\ ledger' = LedgerChat(w.session_id, w.message)

StartClear(w) ==
    /\ w \in waiting /\ w.op = "clear"
    /\ ClearHistory(w.session_id)
    /\ waiting' = waiting \ {w}
    /\ overlap' = w.during
    /\ ledger' = [ledger EXCEPT ![w.session_id] = <<>>]

(* every request a client can have sent *)
Requests ==
    [op : {"chat", "clear"}, session_id : LoopSessions,
     message : LoopMessages \cup {<<>>},
     during : {NoOverlap} \cup [op : {"chat"}, session_id : LoopSessions,
                                message : LoopMessages]]

NextLoop ==
    \/ \E s \in LoopSessions, m \in LoopMessages : Arrive("chat", s, m)
    \/ \E s \in LoopSessions : Arrive("clear", s, <<>>)
    \/ \E w \in Requests : StartChat(w)
    \/ \E w \in Requests : StartClear(w)
    \/ \E r \in Replies : LlmReturns(r)
    \/ \E c \in Causes : LlmRaises(c)

SpecLoop == Init /\ [][NextLoop]_vars

----------------------------------------------------------------------------
(* Properties *)

ChatDone == req.pc = "done" /\ req.op = "chat"

ClearDone == req.pc = "done" /\ req.op = "clear"

Seen == req.session_id \in DOMAIN req.pre

(* the Log the request's session had when the request began; a Log that an
   unseen session gets on first reference is the fresh one *)
LogBefore == IF Seen THEN req.pre[req.session_id] ELSE <<SystemEntry>>

LogNow == StoreView[req.session_id]

(* C1: a send-message whose message is empty or only whitespace ends with
   HTTP status 400 and no other status. *)
C1_BlankSendIs400 ==
    (ChatDone /\ Blank(req.message)) => req.resp.status = 400

(* C2: a send-message with an empty or all-whitespace message leaves the
   Session Store as it was: same session ids, same entries in every Log. *)
C2_BlankSendLeavesStore ==
    (ChatDone /\ Blank(req.message)) =>
        /\ DOMAIN conversations = DOMAIN req.pre
        /\ StoreView = req.pre

C2_Witness ==
    /\ ChatDone /\ Blank(req.message) /\ req.message # <<>>
    /\ ~Seen
    /\ \E s \in DOMAIN conversations : Len(StoreView[s]) >= 3

(* C3: a send-message with non-blank text T whose gateway call succeeds
   appends (user, T) and then (assistant, reply) to the session's Log, seen
   or unseen; earlier entries stay and the length grows by exactly 2. *)
C3_SuccessfulSendAppendsTwo ==
    (ChatDone /\ req.resp.status = 200) =>
        /\ ~Blank(req.message)
        /\ req.session_id \in DOMAIN conversations
        /\ LogNow = LogBefore \o <<UserEntry(req.message),
                                   AssistantEntry(req.resp.response)>>
        /\ Len(LogNow) = Len(LogBefore) + 2

C3_Witness ==
    /\ ChatDone /\ req.resp.status = 200
    /\ Seen /\ Len(LogBefore) >= 2
    /\ req.message = <<" ", "hi">>

(* C4: when the gateway call of a send-message with a non-blank message
   fails, the request ends with HTTP 500 whose detail contains the cause,
   and the session's Log has gained the (user, message) entry only. *)
C4_GatewayFailureKeepsUserEntry ==
    (ChatDone /\ req.cause # <<>>) =>
        /\ ~Blank(req.message)
        /\ req.resp.status = 500
        /\ \E n \in 0 .. Len(req.resp.detail) :
              SubSeq(req.resp.detail, n + 1, Len(req.resp.detail)) = req.cause
        /\ req.session_id \in DOMAIN conversations
        /\ LogNow = LogBefore \o <<UserEntry(req.message)>>

C4_Witness ==
    /\ ChatDone /\ req.cause \in Causes
    /\ Seen /\ Len(LogBefore) >= 2

(* C5: clear-history on a session id that is in the Session Store, whatever
   the length of its Log, leaves that Log with exactly the system entry. *)
C5_ClearResetsToSystemEntry ==
    (ClearDone /\ Seen) =>
        /\ req.session_id \in DOMAIN conversations
        /\ LogNow = <<SystemEntry>>

C5_Witness ==
    /\ ClearDone /\ Seen /\ Len(LogBefore) >= 4

(* C6: clear-history on a never-seen session id succeeds, returns the same
   session id, and leaves the Session Store unchanged (the id is not added). *)
C6_ClearUnseenIsNoOp ==
    (ClearDone /\ ~Seen) =>
        /\ req.resp.status = 200
        /\ req.resp.session_id = req.session_id
        /\ req.session_id \notin DOMAIN conversations
        /\ StoreView = req.pre

C6_Witness ==
    /\ ClearDone /\ ~Seen
    /\ \E s \in DOMAIN conversations : Len(StoreView[s]) >= 3

(* C7: get_or_create on an unseen session id stores and returns a Log with
   exactly the system entry; on a stored id it returns the stored Log and
   changes nothing; a second call returns the same Log. *)
C7_GetOrCreate ==
    /\ \A s \in Sessions :
         LET g  == GetOrCreateHistory(conversations, heap, s)
             g2 == GetOrCreateHistory(g.conversations, g.heap, s)
         IN /\ s \in DOMAIN g.conversations
            /\ g.conversations[s] = g.history
            /\ g2 = g
            /\ \A t \in DOMAIN conversations :
                  t # s => /\ g.conversations[t] = conversations[t]
                           /\ g.conversations[t] # g.history
                           /\ g.heap[g.conversations[t]] = heap[conversations[t]]
            /\ IF s \notin DOMAIN conversations
               THEN g.heap[g.history] = <<SystemEntry>>
               ELSE /\ g.history = conversations[s]
                    /\ g.conversations = conversations
                    /\ g.heap = heap
    /\ req.pc = "gateway" =>
         /\ req.session_id \in DOMAIN conversations
         /\ conversations[req.session_id] = req.history
         /\ SubSeq(LogNow, 1, Len(LogBefore)) = LogBefore

C7_Witness ==
    /\ req.pc = "gateway" /\ ~Seen
    /\ \E s \in DOMAIN req.pre : Len(req.pre[s]) >= 3

(* C8: in every reachable state every stored Log is non-empty and its first
   entry is the system entry. *)
C8_FirstEntryIsSystem ==
    \A s \in DOMAIN conversations :
        /\ Len(StoreView[s]) >= 1
        /\ StoreView[s][1] = SystemEntry

C8_Witness ==
    /\ ClearDone /\ Seen /\ Len(LogBefore) = 2
    /\ \E s \in DOMAIN conversations : Len(StoreView[s]) >= 3

(* C9: round trip.  A successful send answers with the request's session
   id; when clear-history has just reset a session whose last turn was a
   successful send, the next send to it begins on a Log of length 1; and a
   send that began on such a Log and succeeded leaves exactly
   [system, (user, new message), (assistant, reply)]. *)
ClearedAfterSend ==
    /\ ClearDone /\ Seen
    /\ Len(LogBefore) >= 3
    /\ LogBefore[Len(LogBefore)].role = "assistant"

C9_RoundTrip ==
    /\ []((ChatDone /\ req.resp.status = 200) =>
             req.resp.session_id = req.session_id)
    /\ [][(ClearedAfterSend /\ req'.op = "chat"
              /\ req'.session_id = req.session_id /\ ~Blank(req'.message))
          => /\ req.session_id \in DOMAIN req'.pre
             /\ Len(req'.pre[req.session_id]) = 1
             /\ req'.sent = <<SystemEntry, UserEntry(req'.message)>>]_vars
    /\ []((ChatDone /\ req.resp.status = 200 /\ Seen /\ Len(LogBefore) = 1) =>
             LogNow = <<SystemEntry, UserEntry(req.message),
                        AssistantEntry(req.resp.response)>>)

C9_Witness ==
    /\ ChatDone /\ req.resp.status = 200
    /\ Seen /\ Len(LogBefore) = 1
    /\ req.resp.session_id = "A"

(* C10: sessions are independent: a step of a request on session S leaves
   the Log of every other session id as it was and neither adds nor removes
   another session id. *)
C10_SessionsIndependent ==
    [][\A t \in Sessions :
          t # req'.session_id =>
             /\ (t \in DOMAIN conversations') <=> (t \in DOMAIN conversations)
             /\ t \in DOMAIN conversations =>
                   heap'[conversations'[t]] = heap[conversations[t]]]_vars

C10_Witness ==
    /\ ClearDone /\ Seen /\ req.session_id = "A" /\ Len(LogBefore) >= 3
    /\ "B" \in DOMAIN conversations /\ Len(StoreView["B"]) >= 3

(* C11: a send-message with a non-blank message invokes the Model Gateway
   with the session's full Log: the system entry first, the entries of
   earlier turns in their stored order, and the request's user entry last. *)
C11_GatewayGetsFullLog ==
    (req.op = "chat" /\ ~Blank(req.message) /\ req.pc \in {"gateway", "done"}) =>
        /\ req.sent = LogBefore \o <<UserEntry(req.message)>>
        /\ req.sent[1] = SystemEntry
        /\ req.pc = "gateway" => req.sent = LogNow

C11_Witness ==
    /\ req.pc = "gateway" /\ Seen /\ Len(LogBefore) >= 2
    /\ Len(req.sent) = Len(LogBefore) + 1

(* C14: every step either extends a stored Log (the old Log is a prefix of
   the new one) or leaves exactly the system entry. *)
IsPrefix(old, new) ==
    /\ Len(old) <= Len(new)
    /\ SubSeq(new, 1, Len(old)) = old

C14_GrowOrReset ==
    [][\A s \in DOMAIN conversations \cap DOMAIN conversations' :
          \/ IsPrefix(heap[conversations[s]], heap'[conversations'[s]])
          \/ heap'[conversations'[s]] = <<SystemEntry>>]_vars

C14_Witness ==
    /\ ClearDone /\ Seen /\ Len(LogBefore) >= 3 /\ LogNow = <<SystemEntry>>
    /\ \E s \in DOMAIN conversations : Len(StoreView[s]) = 2

(* C15: a session id in the Session Store stays in it; the set of stored
   ids only grows, and only a send-message with a non-blank message adds
   an id (its own). *)
C15_NoDeletion ==
    [][/\ DOMAIN conversations \subseteq DOMAIN conversations'
       /\ \A s \in DOMAIN conversations' \ DOMAIN conversations :
             /\ req'.op = "chat"
             /\ req'.session_id = s
             /\ ~Blank(req'.message)]_vars

C15_Witness ==
    /\ ClearDone /\ Seen
    /\ DOMAIN conversations = Sessions

(* C16: no retry: a finished send-message has invoked the Model Gateway
   once when its message is non-blank and never when it is blank, and the
   step that follows the invocation ends the request. *)
C16_NoRetry ==
    /\ [](req.op = "chat" =>
             req.calls = IF Blank(req.message) THEN 0 ELSE 1)
    /\ [][(req.pc = "gateway" /\ req' # req) =>
             /\ req'.pc = "done"
             /\ req'.calls = req.calls
             /\ req'.session_id = req.session_id
             /\ req'.message = req.message
             /\ (req'.cause # <<>> => req'.resp.status = 500)]_vars

C16_Witness ==
    /\ ChatDone /\ req.cause \in Causes /\ req.calls = 1
    /\ req.resp.status = 500

(* C19: every stored Log has exactly one system entry, at position 1, and
   in every prefix the assistant entries are at most as many as the user
   entries. *)
CountRole(log, n, role) == Cardinality({ i \in 1 .. n : log[i].role = role })

C19_LogShape ==
    \A s \in DOMAIN conversations :
        LET log == StoreView[s]
        IN /\ Len(log) >= 1
           /\ log[1].role = "system"
           /\ CountRole(log, Len(log), "system") = 1
           /\ \A n \in 1 .. Len(log) :
                 CountRole(log, n, "assistant") <= CountRole(log, n, "user")
           /\ Len(log) >= 2 => log[2].role = "user"

C19_Witness ==
    \E s \in DOMAIN conversations :
        /\ Len(StoreView[s]) = 4
        /\ StoreView[s][3].role = "user"
        /\ StoreView[s][4].role = "assistant"

(* the running (or last) request arrived while a send-message for its own
   session was at the gateway call *)
Overlapped ==
    /\ overlap.op = "chat"
    /\ overlap.session_id = req.session_id

(* C12 as claimed: after a clear-history that came in while a send-message
   for the same session was at the gateway call, and once both have
   finished, the stored Log holds an entry of that send beside the system
   entry. *)
C12_ClearRaceMixesEntries ==
    (ClearDone /\ Seen /\ Overlapped) =>
        \E i \in 2 .. Len(LogNow) :
            \/ LogNow[i] = UserEntry(overlap.message)
            \/ LogNow[i].role = "assistant"

(* C12 as amended: a clear-history that comes in while a send-message for
   the same session is at the gateway call starts only when that send has
   finished, and once it has run the stored Log is exactly the system
   entry: no entry of the send is kept. *)
C12_ClearAfterSendLeavesSystemOnly ==
    /\ []((ClearDone /\ Seen /\ Overlapped) => LogNow = <<SystemEntry>>)
    /\ [][(req'.op = "clear" /\ req' # req) => req.pc \in {"idle", "done"}]_vars

C12_Witness ==
    /\ ClearDone /\ Seen /\ Overlapped
    /\ \E i \in 2 .. Len(LogBefore) : LogBefore[i] = UserEntry(overlap.message)
    /\ LogBefore[Len(LogBefore)].role = "assistant"

(* a successful send-message that came in while another send-message for
   the same session was at the gateway call, which succeeded too *)
BothSendsSucceeded ==
    /\ ChatDone /\ req.resp.status = 200 /\ Overlapped
    /\ Len(LogBefore) >= 3
    /\ LogBefore[Len(LogBefore) - 1] = UserEntry(overlap.message)
    /\ LogBefore[Len(LogBefore)].role = "assistant"

(* C13 as claimed: the entries of two concurrent successful sends to one
   session end up as (user1, user2, assistant, assistant). *)
C13_ConcurrentSendsInterleave ==
    BothSendsSucceeded =>
        LET n == Len(LogNow)
        IN /\ LogNow[n - 3].role = "user"
           /\ LogNow[n - 2].role = "user"
           /\ LogNow[n - 1].role = "assistant"
           /\ LogNow[n].role = "assistant"

(* C13 as amended: the entries of two concurrent sends to one session do
   not interleave: the later send appends its user entry and its assistant
   entry after everything the earlier one appended, and in every stored Log
   an assistant entry directly follows a user entry. *)
C13_NoInterleavedEntries ==
    /\ \A s \in DOMAIN conversations :
          \A i \in 1 .. Len(StoreView[s]) :
              StoreView[s][i].role = "assistant" =>
                  /\ i >= 2
                  /\ StoreView[s][i - 1].role = "user"
    /\ (ChatDone /\ req.resp.status = 200 /\ Overlapped) =>
          LogNow = LogBefore \o <<UserEntry(req.message),
                                  AssistantEntry(req.resp.response)>>

C13_Witness ==
    /\ BothSendsSucceeded
    /\ req.message # overlap.message

(* C17: when a send-message returns a successful response with reply R, the
   Log stored for its session holds the request's user entry followed by
   (assistant, R); while the send is at the gateway call no other handler
   runs, whatever requests come in meanwhile. *)
C17_ReplyIsStored ==
    /\ []((ChatDone /\ req.resp.status = 200) =>
             /\ req.session_id \in DOMAIN conversations
             /\ \E i \in 2 .. Len(LogNow) :
                   /\ LogNow[i - 1] = UserEntry(req.message)
                   /\ LogNow[i] = AssistantEntry(req.resp.response))
    /\ [][req.pc = "gateway" =>
             /\ conversations' = conversations
             /\ req' # req => /\ req'.op = "chat" /\ req'.pc = "done"
                              /\ req'.session_id = req.session_id
                              /\ req'.message = req.message]_vars

C17_Witness ==
    /\ ChatDone /\ req.resp.status = 200
    /\ \E w \in waiting :
          /\ w.op = "clear" /\ w.session_id = req.session_id
          /\ w.during = [op |-> "chat", session_id |-> req.session_id,
                         message |-> req.message]

(* C18: concurrent sends lose no entries: when no request for a session is
   in flight, its Log has 1 + n + k entries, n the sends with a non-blank
   message and k the successful ones since the Log was created or reset,
   and holds every user entry of those sends and every assistant entry of
   the successful ones. *)
InFlight(s) ==
    \/ req.pc = "gateway" /\ req.session_id = s
    \/ \E w \in waiting : w.session_id = s

Occurrences(log, e) == Cardinality({ i \in 1 .. Len(log) : log[i] = e })

C18_NoEntryLost ==
    \A s \in Sessions :
        (~InFlight(s) /\ ledger[s] # <<>>) =>
            /\ s \in DOMAIN conversations
            /\ Len(StoreView[s]) =
                  1 + Cardinality({ i \in 1 .. Len(ledger[s]) : ledger[s][i].role = "user" })
                    + Cardinality({ i \in 1 .. Len(ledger[s]) : ledger[s][i].role = "assistant" })
            /\ \A i \in 1 .. Len(ledger[s]) :
                  Occurrences(StoreView[s], ledger[s][i]) =
                  Occurrences(ledger[s], ledger[s][i])

C18_Witness ==
    /\ ~InFlight("A") /\ Overlapped
    /\ Cardinality({ i \in 1 .. Len(ledger["A"]) : ledger["A"][i].role = "user" }) = 3
    /\ Cardinality({ i \in 1 .. Len(ledger["A"]) : ledger["A"][i].role = "assistant" }) = 1

====
